---- MODULE Spec2Model ----
(***************************************************************************)
(* Model of fim_agent.py: a file-integrity monitor that stores a baseline  *)
(* of SHA256 fingerprints (baseline.json), rescans the monitored root      *)
(* (target_files), classifies every path as modified / added / deleted and *)
(* writes one report per run that found a change (FIM_Incidents/).         *)
(***************************************************************************)
EXTENDS Integers, Sequences, FiniteSets, TLC

\* ------------------------------------------------------------------ bounds
\* Relative paths under the root are 1..MaxPaths, file contents 1..MaxContent.
MaxPaths == 2
MaxContent == 1
\* The clock runs over instants 0..MaxClock, TicksPerSecond instants a second.
MaxClock == 1
TicksPerSecond == 2

Paths == 1..MaxPaths
Contents == 1..MaxContent

\* ------------------------------------------------------------ fingerprints
\* hasher.hexdigest(): one digest per content (no collisions).
Digest(c) == [tag |-> "sha256", of |-> c]
\* The value returned when the read raises.
ErrorHash == [tag |-> "ERROR", of |-> 0]
\* The value returned when the path is not a regular file.
EmptyHash == [tag |-> "", of |-> 0]

Hashes == {Digest(c) : c \in Contents} \cup {ErrorHash, EmptyHash}

\* calculate_sha256(filepath): isFile is filepath.is_file() at the call,
\* readable is whether open/read succeed, content the bytes of the file.
calculate_sha256(isFile, readable, content) ==
    IF ~isFile THEN EmptyHash
    ELSE IF readable THEN Digest(content)
    ELSE ErrorHash

\* --------------------------------------------------------------- snapshots
\* A Python dict {relative_path: hash} in insertion order: a sequence of
\* entries with distinct keys.
Entry(p, h) == [file |-> p, hash |-> h]

Keys(d) == {d[i].file : i \in 1..Len(d)}

Has(d, p) == p \in Keys(d)

\* d[p] for a key p of d.
Get(d, p) == d[CHOOSE i \in 1..Len(d) : d[i].file = p].hash

\* d[p] = h: replaces the value of an existing key in place, appends a new key.
Put(d, p, h) ==
    IF Has(d, p)
    THEN [i \in 1..Len(d) |-> IF d[i].file = p THEN Entry(p, h) ELSE d[i]]
    ELSE Append(d, Entry(p, h))

\* All orderings of the set S, as sequences without repetition.
Perms(S) ==
    {s \in [1..Cardinality(S) -> S] : \A i, j \in 1..Cardinality(S) : s[i] = s[j] => i = j}

\* Every dict over Paths with values in Hashes.
Snapshots ==
    UNION {{[i \in 1..Len(o) |-> Entry(o[i], v[i])] : v \in [1..Len(o) -> Hashes]} :
           o \in UNION {Perms(K) : K \in SUBSET Paths}}

\* ------------------------------------------------------------- diff engine
NoIncidents == [modified |-> <<>>, added |-> <<>>, deleted |-> <<>>]

\* Variant: a file whose fingerprint is a sentinel is passed over.
ClassifySkipsSentinel(baseline, p, h, inc) ==
    IF h \in {ErrorHash, EmptyHash} THEN inc
    ELSE IF Has(baseline, p) /\ h # Get(baseline, p)
    THEN [inc EXCEPT !.modified = Append(@,
             [file |-> p, baseline_hash |-> Get(baseline, p), current_hash |-> h])]
    ELSE IF ~Has(baseline, p)
    THEN [inc EXCEPT !.added = Append(@, [file |-> p, current_hash |-> h])]
    ELSE inc

\* Variant: a sentinel fingerprint counts as a modification whatever the
\* baseline holds.
ClassifyFlagsSentinel(baseline, p, h, inc) ==
    IF Has(baseline, p) /\ (h # Get(baseline, p) \/ h \in {ErrorHash, EmptyHash})
    THEN [inc EXCEPT !.modified = Append(@,
             [file |-> p, baseline_hash |-> Get(baseline, p), current_hash |-> h])]
    ELSE IF ~Has(baseline, p)
    THEN [inc EXCEPT !.added = Append(@, [file |-> p, current_hash |-> h])]
    ELSE inc

\* Lines 103-115: the incident, if any, of one scanned file.
ClassifyScanned(baseline, p, h, inc) ==
    IF Has(baseline, p) /\ h # Get(baseline, p)
    THEN [inc EXCEPT !.modified = Append(@,
             [file |-> p, baseline_hash |-> Get(baseline, p), current_hash |-> h])]
    ELSE IF ~Has(baseline, p)
    THEN [inc EXCEPT !.added = Append(@, [file |-> p, current_hash |-> h])]
    ELSE inc

\* Variant: the loop without the assignment to current_hashes of line 100.
RECURSIVE ScanLoopForgets(_, _, _)
ScanLoopForgets(scanned, baseline, st) ==
    IF scanned = <<>> THEN st
    ELSE LET e == Head(scanned)
         IN ScanLoopForgets(Tail(scanned), baseline,
                [st EXCEPT !.incidents =
                    ClassifyScanned(baseline, e.file, e.hash, st.incidents)])

\* Lines 97-115: the loop over the scanned files, in scan order. st holds
\* current_hashes and incidents.
RECURSIVE ScanLoop(_, _, _)
ScanLoop(scanned, baseline, st) ==
    IF scanned = <<>> THEN st
    ELSE LET e == Head(scanned)
         IN ScanLoop(Tail(scanned), baseline,
                     [current_hashes |-> Put(st.current_hashes, e.file, e.hash),
                      incidents |-> ClassifyScanned(baseline, e.file, e.hash, st.incidents)])

\* Variant: a path whose current fingerprint is a sentinel counts as deleted.
RECURSIVE DeletionLoopSentinel(_, _, _)
DeletionLoopSentinel(rest, current_hashes, inc) ==
    IF rest = <<>> THEN inc
    ELSE LET e == Head(rest)
             gone == \/ ~Has(current_hashes, e.file)
                     \/ Get(current_hashes, e.file) \in {ErrorHash, EmptyHash}
         IN DeletionLoopSentinel(Tail(rest), current_hashes,
                IF gone
                THEN [inc EXCEPT !.deleted = Append(@,
                         [file |-> e.file, baseline_hash |-> e.hash])]
                ELSE inc)

\* Lines 118-123: the loop over the baseline's keys, in the baseline's order.
RECURSIVE DeletionLoop(_, _, _)
DeletionLoop(rest, current_hashes, inc) ==
    IF rest = <<>> THEN inc
    ELSE LET e == Head(rest)
         IN DeletionLoop(Tail(rest), current_hashes,
                IF ~Has(current_hashes, e.file)
                THEN [inc EXCEPT !.deleted = Append(@,
                         [file |-> e.file, baseline_hash |-> e.hash])]
                ELSE inc)

\* check_integrity(target_dir, baseline), given what the walk of target_dir
\* yields: scanned is the sequence of (relative path, fingerprint) pairs.
check_integrity(scanned, baseline) ==
    LET st == ScanLoop(scanned, baseline,
                       [current_hashes |-> <<>>, incidents |-> NoIncidents])
    IN DeletionLoop(baseline, st.current_hashes, st.incidents)

\* sum(len(v) for v in incidents.values())
total_incidents(inc) == Len(inc.modified) + Len(inc.added) + Len(inc.deleted)

\* ------------------------------------------------------------------- state
VARIABLES
    root,          \* target_files: "missing", "notdir" (a non-directory) or "dir"
    files,         \* content of each path under the root, 0 when there is no file
    baselineFile,  \* baseline.json
    reportDir,     \* whether FIM_Incidents exists
    reports,       \* the files of FIM_Incidents, by the second in their name
    now,           \* the clock, in instants
    last,          \* what the most recent invocation did and printed
    saver,         \* progress of a create_baseline whose save is under way
    pair,          \* the two snapshots handed to the diff engine
    verdict        \* the results of reconciling them

vars == <<root, files, baselineFile, reportDir, reports, now, last,
          saver, pair, verdict>>

\* The demo file of the first run and its content (line 176).
test_config == 1
initial_content == 1

NoFiles == [p \in Paths |-> 0]

Present == {p \in Paths : files[p] # 0}

Absent == [kind |-> "absent", data |-> <<>>]
Json(d) == [kind |-> "json", data |-> d]
\* The first k entries of json.dump's output, without the rest.
Partial(d, k) == [kind |-> "partial", data |-> SubSeq(d, 1, k)]

\* What the most recent invocation did: the verb, the root it found, the
\* diagnostics it printed, whether it ended in an unhandled exception, what
\* the walk of the tree yielded, whether the diff ran, and what became of the
\* report ("none", "written" or "failed") under which name. loaded is what
\* load_baseline returned, during_save whether it ran while a save was under way.
NoRun ==
    [op |-> "none", root_was |-> "missing", diag |-> {}, raised |-> FALSE,
     loaded |-> <<>>, scanned |-> <<>>, checked |-> FALSE, report |-> "none",
     name |-> 0, during_save |-> FALSE]

Idle == [pc |-> "idle", pending |-> <<>>, flushed |-> 0, previous |-> Absent]

\* ------------------------------------------------------------ tree scanner
\* target_dir.rglob('*') filtered by is_file(), each file fingerprinted:
\* order is the order in which the walk yields the files, failing the files
\* whose open or read raises, vanished the files that are no regular file
\* any more when calculate_sha256 looks at them. A root that is missing or
\* no directory yields nothing.
RECURSIVE Walk(_, _, _, _)
Walk(order, fs, failing, vanished) ==
    IF order = <<>> THEN <<>>
    ELSE LET p == Head(order)
         IN <<Entry(p, calculate_sha256(p \notin vanished, p \notin failing, fs[p]))>>
            \o Walk(Tail(order), fs, failing, vanished)

ScanTree(r, fs, order, failing, vanished) ==
    IF r # "dir" THEN <<>> ELSE Walk(order, fs, failing, vanished)

\* current_baseline[relative_path] = file_hash, for each scanned file.
RECURSIVE BuildDict(_, _)
BuildDict(scanned, d) ==
    IF scanned = <<>> THEN d
    ELSE BuildDict(Tail(scanned), Put(d, Head(scanned).file, Head(scanned).hash))

\* ----------------------------------------------------------- baseline store
\* open(BASELINE_FILENAME, 'w') + json.dump: outcome "ok", "open_fails" (the
\* file is left alone) or "dump_fails" (the file was truncated by open and
\* holds the k entries written before the failure).
SaveBaseline(file, d, outcome, k) ==
    IF outcome = "ok" THEN [file |-> Json(d), diag |-> {"saved"}]
    ELSE IF outcome = "open_fails" THEN [file |-> file, diag |-> {"save_error"}]
    ELSE [file |-> Partial(d, k), diag |-> {"save_error"}]

\* create_baseline(target_dir)
create_baseline(r, scanned, file, outcome, k) ==
    IF r # "dir" THEN [file |-> file, diag |-> {"root_missing"}]
    ELSE SaveBaseline(file, BuildDict(scanned, <<>>), outcome, k)

\* load_baseline(): "text" is content that decodes but is no JSON
\* (json.JSONDecodeError), "bytes" content that does not decode
\* (UnicodeDecodeError, which the except clause does not name).
load_baseline(file) ==
    IF file.kind = "absent"
    THEN [value |-> <<>>, diag |-> {"not_found"}, raised |-> FALSE]
    ELSE IF file.kind = "json"
    THEN [value |-> file.data, diag |-> {}, raised |-> FALSE]
    ELSE IF file.kind \in {"text", "partial"}
    THEN [value |-> <<>>, diag |-> {"corrupted"}, raised |-> FALSE]
    ELSE [value |-> <<>>, diag |-> {}, raised |-> TRUE]

\* -------------------------------------------------------- incident reporter
\* strftime("%Y%m%d_%H%M%S"): the instant cut down to its second.
current_time(t) == t \div TicksPerSecond

\* The paths of a list of incidents, in the list's order.
FilesOf(list) == [i \in 1..Len(list) |-> list[i].file]

\* breach_details as stored: the three lists of paths (the fingerprints each
\* incident carries are not kept in the model of the stored file).
Listing(incidents) ==
    [modified |-> FilesOf(incidents.modified), added |-> FilesOf(incidents.added),
     deleted |-> FilesOf(incidents.deleted)]

ReportData(t, incidents) ==
    [complete |-> TRUE, report_id |-> current_time(t), timestamp_utc |-> t,
     system_os |-> "Windows FIM Agent (Simulated)",
     total_breaches |-> total_incidents(incidents),
     breach_details |-> Listing(incidents)]

\* What a report file holds when json.dump failed after open truncated it.
Truncated(t) ==
    [complete |-> FALSE, report_id |-> current_time(t), timestamp_utc |-> t,
     system_os |-> "", total_breaches |-> 0, breach_details |-> Listing(NoIncidents)]

WriteFileAt(dir, name, content) ==
    [n \in DOMAIN dir \cup {name} |-> IF n = name THEN content ELSE dir[n]]

\* generate_forensic_report(incidents) at instant t: outcome as for the save.
generate_forensic_report(incidents, rep, t, outcome) ==
    LET name == current_time(t)
    IN [reportDir |-> TRUE,
        name |-> name,
        reports |-> IF outcome = "ok" THEN WriteFileAt(rep, name, ReportData(t, incidents))
                    ELSE IF outcome = "open_fails" THEN rep
                    ELSE WriteFileAt(rep, name, Truncated(t)),
        diag |-> IF outcome = "ok" THEN {"report_ok"} ELSE {"report_error"},
        report |-> IF outcome = "ok" THEN "written" ELSE "failed"]

\* ---------------------------------------------------------------- __main__
\* Lines 174-177: a root that does not exist is created with the demo file.
SetupRoot(r) == IF r = "missing" THEN "dir" ELSE r

SetupFiles(r, fs) ==
    IF r = "missing"
    THEN [p \in Paths |-> IF p = test_config THEN initial_content ELSE 0]
    ELSE fs

SetupDiag(r) == IF r = "missing" THEN {"setup"} ELSE {}

\* Variant: a run that found changes stores the walk as the new baseline.
monitorRebaselines(file, scanned, dir, rep, t, outcome) ==
    LET ld == load_baseline(file)
        inc == check_integrity(scanned, ld.value)
        g == generate_forensic_report(inc, rep, t, outcome)
        quiet == [baselineFile |-> file, reportDir |-> dir, reports |-> rep,
                  clock |-> FALSE, diag |-> ld.diag, raised |-> ld.raised,
                  loaded |-> ld.value, checked |-> FALSE, report |-> "none",
                  name |-> 0]
    IN IF ld.raised \/ ld.value = <<>> THEN quiet
       ELSE IF total_incidents(inc) = 0
       THEN [quiet EXCEPT !.checked = TRUE, !.diag = ld.diag \cup {"no_breaches"}]
       ELSE [baselineFile |-> Json(BuildDict(scanned, <<>>)),
             reportDir |-> g.reportDir, reports |-> g.reports,
             clock |-> TRUE, diag |-> ld.diag \cup {"breaches"} \cup g.diag,
             raised |-> FALSE, loaded |-> ld.value, checked |-> TRUE,
             report |-> g.report, name |-> g.name]

\* Lines 183-194: the --monitor branch, given the walk of the root. clock
\* tells whether datetime.now was read.
monitor(file, scanned, dir, rep, t, outcome) ==
    LET ld == load_baseline(file)
        inc == check_integrity(scanned, ld.value)
        g == generate_forensic_report(inc, rep, t, outcome)
        quiet == [baselineFile |-> file, reportDir |-> dir, reports |-> rep,
                  clock |-> FALSE, diag |-> ld.diag, raised |-> ld.raised,
                  loaded |-> ld.value, checked |-> FALSE, report |-> "none",
                  name |-> 0]
    IN IF ld.raised \/ ld.value = <<>> THEN quiet
       ELSE IF total_incidents(inc) = 0
       THEN [quiet EXCEPT !.checked = TRUE, !.diag = ld.diag \cup {"no_breaches"}]
       ELSE [baselineFile |-> file, reportDir |-> g.reportDir, reports |-> g.reports,
             clock |-> TRUE, diag |-> ld.diag \cup {"breaches"} \cup g.diag,
             raised |-> FALSE, loaded |-> ld.value, checked |-> TRUE,
             report |-> g.report, name |-> g.name]

SaveOutcomes == {"ok", "open_fails", "dump_fails"}

\* The regular files a walk of the root finds, after the setup of lines 174-177.
Found(r, fs) == IF r = "dir" THEN {p \in Paths : fs[p] # 0} ELSE {}

\* python3 fim_agent.py --create-baseline
RunCreateBaseline ==
    /\ saver.pc = "idle"
    /\ LET r == SetupRoot(root)
           fs == SetupFiles(root, files)
       IN \E order \in Perms(Found(r, fs)), failing \in SUBSET Found(r, fs) :
          \E vanished \in SUBSET (Found(r, fs) \ failing) :
          \E scanned \in {ScanTree(r, fs, order, failing, vanished)} :
          \E outcome \in IF r = "dir" THEN SaveOutcomes ELSE {"ok"} :
          \E k \in IF outcome = "dump_fails" THEN 0..(Len(scanned) - 1) ELSE {0} :
          \E res \in {create_baseline(r, scanned, baselineFile, outcome, k)} :
               /\ root' = r
               /\ files' = fs
               /\ baselineFile' = res.file
               /\ last' = [NoRun EXCEPT !.op = "baseline", !.root_was = root,
                                        !.diag = SetupDiag(root) \cup res.diag,
                                        !.scanned = scanned]
    /\ UNCHANGED <<reportDir, reports, now, saver, pair, verdict>>

\* python3 fim_agent.py --monitor
RunMonitor ==
    /\ LET r == SetupRoot(root)
           fs == SetupFiles(root, files)
       IN \E order \in Perms(Found(r, fs)), failing \in SUBSET Found(r, fs),
             outcome \in SaveOutcomes :
          \E vanished \in SUBSET (Found(r, fs) \ failing) :
          \E scanned \in {ScanTree(r, fs, order, failing, vanished)} :
          \E res \in {monitor(baselineFile, scanned, reportDir, reports, now, outcome)} :
               /\ res.clock => now <= MaxClock
               /\ ~res.clock => outcome = "ok"
               /\ root' = r
               /\ files' = fs
               /\ baselineFile' = res.baselineFile
               /\ reportDir' = res.reportDir
               /\ reports' = res.reports
               /\ now' = IF res.clock THEN now + 1 ELSE now
               /\ last' = [op |-> "monitor", root_was |-> root,
                           diag |-> SetupDiag(root) \cup res.diag,
                           raised |-> res.raised, loaded |-> res.loaded,
                           scanned |-> scanned,
                           checked |-> res.checked, report |-> res.report,
                           name |-> res.name, during_save |-> saver.pc # "idle"]
    /\ UNCHANGED <<saver, pair, verdict>>

\* Any other invocation: the usage text.
RunUsage ==
    /\ saver.pc = "idle"
    /\ root' = SetupRoot(root)
    /\ files' = SetupFiles(root, files)
    /\ last' = [NoRun EXCEPT !.op = "usage", !.root_was = root,
                             !.diag = SetupDiag(root) \cup {"usage"}]
    /\ UNCHANGED <<baselineFile, reportDir, reports, now, saver, pair, verdict>>

\* ------------------------------------------------------------- environment
\* What the operator and other programs do to the monitored tree, to
\* baseline.json and to the clock between invocations. last describes the
\* invocation that has just ended, and is cleared by these steps.
WriteFile ==
    /\ root = "dir"
    /\ \E p \in Paths, c \in Contents :
         /\ files[p] # c
         /\ files' = [files EXCEPT ![p] = c]
    /\ last' = NoRun
    /\ UNCHANGED <<root, baselineFile, reportDir, reports, now, saver, pair, verdict>>

RemoveFile ==
    /\ root = "dir"
    /\ \E p \in Present : files' = [files EXCEPT ![p] = 0]
    /\ last' = NoRun
    /\ UNCHANGED <<root, baselineFile, reportDir, reports, now, saver, pair, verdict>>

\* The root is removed, replaced by a non-directory, or made as an empty
\* directory.
ChangeRoot ==
    /\ saver.pc = "idle"
    /\ \E r \in {"missing", "notdir", "dir"} :
         /\ r # root
         /\ r = "dir" => root = "missing"
         /\ root' = r
    /\ files' = NoFiles
    /\ last' = NoRun
    /\ UNCHANGED <<baselineFile, reportDir, reports, now, saver, pair, verdict>>

\* baseline.json is deleted or overwritten from outside.
TamperBaseline ==
    /\ saver.pc = "idle"
    /\ \E k \in {"absent", "text", "bytes"} :
         /\ baselineFile.kind # k
         /\ baselineFile' = [kind |-> k, data |-> <<>>]
    /\ last' = NoRun
    /\ UNCHANGED <<root, files, reportDir, reports, now, saver, pair, verdict>>

Tick ==
    /\ now <= MaxClock
    /\ now' = now + 1
    /\ last' = NoRun
    /\ UNCHANGED <<root, files, baselineFile, reportDir, reports, saver, pair, verdict>>

\* ------------------------------------------------- a save seen from outside
\* create_baseline up to open(BASELINE_FILENAME, 'w') of line 59, which
\* truncates the file; the dict to dump is pending.
SaveBegin ==
    /\ saver.pc = "idle"
    /\ SetupRoot(root) = "dir"
    /\ LET fs == SetupFiles(root, files)
       IN \E order \in Perms(Found("dir", fs)), failing \in SUBSET Found("dir", fs) :
            /\ saver' = [pc |-> "writing",
                         pending |-> BuildDict(ScanTree("dir", fs, order, failing, {}), <<>>),
                         flushed |-> 0, previous |-> baselineFile]
            /\ files' = fs
    /\ root' = "dir"
    /\ baselineFile' = Partial(<<>>, 0)
    /\ last' = NoRun
    /\ UNCHANGED <<reportDir, reports, now, pair, verdict>>

\* json.dump of line 60: the buffered writer flushes one more entry.
SaveFlush ==
    /\ saver.pc = "writing"
    /\ saver.flushed < Len(saver.pending)
    /\ saver' = [saver EXCEPT !.flushed = @ + 1]
    /\ baselineFile' = Partial(saver.pending, saver.flushed + 1)
    /\ UNCHANGED <<root, files, reportDir, reports, now, last, pair, verdict>>

\* The end of the with block of lines 59-60: everything is written.
SaveClose ==
    /\ saver.pc = "writing"
    /\ baselineFile' = Json(saver.pending)
    /\ saver' = Idle
    /\ last' = [NoRun EXCEPT !.op = "baseline", !.root_was = root, !.diag = {"saved"},
                             !.scanned = saver.pending]
    /\ UNCHANGED <<root, files, reportDir, reports, now, pair, verdict>>

\* Line 185 of a --monitor run of another process: load_baseline() reads
\* baseline.json as it is at that moment.
Load ==
    /\ LET ld == load_baseline(baselineFile)
       IN last' = [NoRun EXCEPT !.op = "load", !.root_was = root, !.diag = ld.diag,
                                !.raised = ld.raised, !.loaded = ld.value,
                                !.during_save = saver.pc # "idle"]
    /\ UNCHANGED <<root, files, baselineFile, reportDir, reports, now, saver, pair,
                   verdict>>

\* --------------------------------------------------- the diff engine alone
NoVerdict ==
    [op |-> "none", fwd |-> NoIncidents, rev |-> NoIncidents, failing |-> {},
     vanished |-> {}]

\* check_integrity over a walk of some tree against the baseline pair.a, and
\* the same two snapshots with their roles exchanged.
Reconcile ==
    /\ verdict.op = "none"
    /\ \E fs \in [Paths -> 0..MaxContent] :
       \E order \in Perms(Found("dir", fs)), failing \in SUBSET Found("dir", fs) :
       \E vanished \in SUBSET (Found("dir", fs) \ failing) :
         LET scanned == ScanTree("dir", fs, order, failing, vanished)
         IN /\ files' = fs
            /\ pair' = [pair EXCEPT !.b = scanned]
            /\ verdict' = [op |-> "pair",
                           fwd |-> check_integrity(scanned, pair.a),
                           rev |-> check_integrity(pair.a, scanned),
                           failing |-> failing, vanished |-> vanished]
    /\ UNCHANGED <<root, baselineFile, reportDir, reports, now, last, saver>>

\* check_integrity of a snapshot against itself.
ReconcileSelf ==
    /\ verdict.op = "none"
    /\ pair' = [pair EXCEPT !.b = pair.a]
    /\ verdict' = [NoVerdict EXCEPT !.op = "self",
                                    !.fwd = check_integrity(pair.a, pair.a),
                                    !.rev = check_integrity(pair.a, pair.a)]
    /\ UNCHANGED <<root, files, baselineFile, reportDir, reports, now, last, saver>>

\* ---------------------------------------------------------- specifications
Init ==
    /\ root = "missing"
    /\ files = NoFiles
    /\ baselineFile = Absent
    /\ reportDir = FALSE
    /\ reports = <<>>
    /\ now = 0
    /\ last = NoRun
    /\ saver = Idle
    /\ pair = [a |-> <<>>, b |-> <<>>]
    /\ verdict = NoVerdict

\* The command line, one invocation at a time, and its environment.
Next ==
    \/ RunCreateBaseline
    \/ RunMonitor
    \/ RunUsage
    \/ WriteFile
    \/ RemoveFile
    \/ ChangeRoot
    \/ TamperBaseline
    \/ Tick

Spec == Init /\ [][Next]_vars

\* A --create-baseline whose save is interleaved with loads of other processes.
NextSave ==
    \/ SaveBegin
    \/ SaveFlush
    \/ SaveClose
    \/ Load
    \/ WriteFile
    \/ RemoveFile

SpecSave == Init /\ [][NextSave]_vars

\* The diff engine on every baseline and every walk within the bounds.
InitDiff ==
    /\ root = "dir"
    /\ files = NoFiles
    /\ baselineFile = Absent
    /\ reportDir = FALSE
    /\ reports = <<>>
    /\ now = 0
    /\ last = NoRun
    /\ saver = Idle
    /\ pair \in {[a |-> d, b |-> <<>>] : d \in Snapshots}
    /\ verdict = NoVerdict

NextDiff ==
    \/ Reconcile
    \/ ReconcileSelf

SpecDiff == InitDiff /\ [][NextDiff]_vars

\* ------------------------------------------------------------- properties
Range(list) == {list[i] : i \in 1..Len(list)}

\* The classification of the paths of two snapshots, stated on the snapshots.
ModifiedPaths(d, sc) == {p \in Keys(d) \cap Keys(sc) : Get(d, p) # Get(sc, p)}
UnchangedPaths(d, sc) == {p \in Keys(d) \cap Keys(sc) : Get(d, p) = Get(sc, p)}
AddedPaths(d, sc) == Keys(sc) \ Keys(d)
DeletedPaths(d, sc) == Keys(d) \ Keys(sc)
ChangedPaths(d, sc) == ModifiedPaths(d, sc) \cup AddedPaths(d, sc) \cup DeletedPaths(d, sc)

NoRepeat(list) == Cardinality(Range(FilesOf(list))) = Len(list)

\* C1: check_integrity puts every path of baseline and current in exactly one
\* of unchanged, modified, added, deleted: the three lists hold the paths that
\* differ, that are only in current and that are only in the baseline, no
\* path is in two lists or twice in one, and the four counts add up to the
\* number of paths.
PartitionComplete ==
    verdict.op = "pair" =>
        LET inc == verdict.fwd
            m == Range(FilesOf(inc.modified))
            a == Range(FilesOf(inc.added))
            d == Range(FilesOf(inc.deleted))
        IN /\ m = ModifiedPaths(pair.a, pair.b)
           /\ a = AddedPaths(pair.a, pair.b)
           /\ d = DeletedPaths(pair.a, pair.b)
           /\ NoRepeat(inc.modified) /\ NoRepeat(inc.added) /\ NoRepeat(inc.deleted)
           /\ m \cap a = {} /\ m \cap d = {} /\ a \cap d = {}
           /\ Len(inc.modified) + Len(inc.added) + Len(inc.deleted)
                + Cardinality(UnchangedPaths(pair.a, pair.b))
              = Cardinality(Keys(pair.a) \cup Keys(pair.b))

PartitionWitness ==
    /\ verdict.op = "pair"
    /\ Len(verdict.fwd.modified) = 1
    /\ Len(verdict.fwd.added) = 1

\* C2: after a successful baseline, a --monitor run whose report write does
\* not fail writes a report exactly when some path was added, modified or
\* deleted since the baseline, and the report lists those paths under their
\* kinds.
ReportIffChanged ==
    (last.op = "monitor" /\ baselineFile.kind = "json" /\ last.report # "failed") =>
        LET d == baselineFile.data
            sc == last.scanned
        IN /\ (last.report = "written") <=> (ChangedPaths(d, sc) # {})
           /\ last.report = "written" =>
                LET det == reports[last.name].breach_details
                IN /\ Range(det.modified) = ModifiedPaths(d, sc)
                   /\ Range(det.added) = AddedPaths(d, sc)
                   /\ Range(det.deleted) = DeletedPaths(d, sc)

\* C3: baseline creation, or a check cycle that reaches the diff, over a root
\* that is no directory ends in the precondition diagnostic and leaves the
\* baseline file, the reports and the report directory as they were.
MissingRootIsFatal ==
    [][(/\ SetupRoot(root) # "dir"
        /\ \/ last'.op = "baseline"
           \/ last'.op = "monitor" /\ last'.checked)
       => /\ "root_missing" \in last'.diag
          /\ baselineFile' = baselineFile
          /\ reports' = reports
          /\ reportDir' = reportDir]_vars

\* C4: a report, once written, stays in the report directory with the
\* content it was written with.
ReportsNeverOverwritten ==
    [][\A n \in DOMAIN reports : n \in DOMAIN reports' /\ reports'[n] = reports[n]]_vars

\* C5: a load that runs while a save is under way gives what loading the
\* complete previous baseline or the complete new one gives.
LoadSeesWholeBaseline ==
    (last.op = "load" /\ last.during_save /\ saver.pc # "idle") =>
        [value |-> last.loaded, diag |-> last.diag, raised |-> last.raised]
            \in {load_baseline(saver.previous), load_baseline(Json(saver.pending))}

\* C6: in a --monitor run, an absent baseline file gives the empty mapping
\* and "not found", an unparseable one the empty mapping and "corrupted"
\* without an unhandled exception, and in both cases there is no diff and no
\* report; a parseable one gives the stored snapshot and neither diagnostic.
LoadOutcomes ==
    last.op = "monitor" =>
        /\ baselineFile.kind = "absent" =>
             /\ "not_found" \in last.diag /\ "corrupted" \notin last.diag
             /\ ~last.raised /\ last.loaded = <<>>
             /\ ~last.checked /\ last.report = "none"
        /\ baselineFile.kind \in {"text", "bytes", "partial"} =>
             /\ "corrupted" \in last.diag /\ "not_found" \notin last.diag
             /\ ~last.raised /\ last.loaded = <<>>
             /\ ~last.checked /\ last.report = "none"
        /\ baselineFile.kind = "json" =>
             /\ last.diag \cap {"not_found", "corrupted"} = {}
             /\ ~last.raised /\ last.loaded = baselineFile.data

\* The sentinel a failed read of p leaves in the walk.
SentinelOf(p) == IF p \in verdict.vanished THEN EmptyHash ELSE ErrorHash

\* C7: a file whose read fails during the check and whose baseline entry is a
\* digest is listed as modified with that digest and the sentinel, and every
\* regular file of the tree is fingerprinted and classified in the same run.
ReadFailureIsModified ==
    verdict.op = "pair" =>
        /\ \A p \in verdict.failing \cup verdict.vanished :
             (Has(pair.a, p) /\ Get(pair.a, p).tag = "sha256") =>
                 [file |-> p, baseline_hash |-> Get(pair.a, p),
                  current_hash |-> SentinelOf(p)] \in Range(verdict.fwd.modified)
        /\ \A p \in Paths : files[p] # 0 =>
             /\ Has(pair.b, p)
             /\ p \notin verdict.failing \cup verdict.vanished =>
                    Get(pair.b, p) = Digest(files[p])
             /\ \/ p \in Range(FilesOf(verdict.fwd.modified))
                \/ p \in Range(FilesOf(verdict.fwd.added))
                \/ Has(pair.a, p) /\ Get(pair.a, p) = Get(pair.b, p)

ReadFailureWitness ==
    /\ verdict.op = "pair"
    /\ Len(pair.b) = 2
    /\ \E p \in verdict.failing, q \in verdict.vanished :
         /\ Has(pair.a, p) /\ Get(pair.a, p).tag = "sha256"
         /\ Has(pair.a, q) /\ Get(pair.a, q).tag = "sha256"
    /\ Len(verdict.fwd.modified) = 2

\* C8: a --monitor run and a usage-only invocation leave baseline.json as it
\* is, and a baseline creation that reports success leaves in it exactly the
\* snapshot of its own walk.
BaselineOnlyByCreation ==
    [][/\ last'.op \in {"monitor", "usage"} => baselineFile' = baselineFile
       /\ (last'.op = "baseline" /\ "saved" \in last'.diag) =>
            /\ baselineFile' = Json(last'.scanned)
            /\ Keys(baselineFile'.data) = Found(root', files')]_vars

BaselineKeptWitness ==
    /\ last.op = "monitor"
    /\ last.report = "written"
    /\ baselineFile.kind = "json"
    /\ Keys(baselineFile.data) # Keys(last.scanned)

\* C9: reconciling a snapshot against itself yields no incident.
SelfReconcileIsEmpty ==
    verdict.op = "self" => verdict.fwd = NoIncidents

SelfReconcileWitness ==
    /\ verdict.op = "self"
    /\ Len(pair.a) = 2
    /\ \E i \in 1..Len(pair.a) : pair.a[i].hash = ErrorHash
    /\ \E i \in 1..Len(pair.a) : pair.a[i].hash = EmptyHash

\* C10: the deleted list of reconcile(A, B) is the added list of
\* reconcile(B, A): the same paths in the same order with the same fingerprint.
DeletedIsAddedReversed ==
    verdict.op = "pair" =>
        [i \in 1..Len(verdict.fwd.deleted) |->
            <<verdict.fwd.deleted[i].file, verdict.fwd.deleted[i].baseline_hash>>]
        = [i \in 1..Len(verdict.rev.added) |->
            <<verdict.rev.added[i].file, verdict.rev.added[i].current_hash>>]

DualityWitness ==
    /\ verdict.op = "pair"
    /\ Len(verdict.fwd.deleted) = 1
    /\ Len(verdict.fwd.modified) = 1
    /\ Len(verdict.rev.added) = 1

====
